---- MODULE Spec2Model ----
(***************************************************************************)
(* hyper/common/connection.py: HTTPConnection, the HTTP/1.1 and HTTP/2     *)
(* abstraction layer.  The facade owns one backing connection object       *)
(* (self._conn), forwards request() to it and, when the backing object     *)
(* raises TLSUpgrade, replaces it by an HTTP20Connection that reuses the   *)
(* negotiated socket, sends the HTTP/2 preamble and replays the request.   *)
(*                                                                         *)
(* HTTP11Connection, HTTP20Connection, TLSUpgrade and H2_NPN_PROTOCOLS are *)
(* imported by the file (lines 8-11) and defined elsewhere; their          *)
(* behaviour is a nondeterministic choice among the outcomes their         *)
(* interface allows.                                                       *)
(***************************************************************************)
EXTENDS Integers, Sequences, FiniteSets, TLC

\* Number of request() calls made on one facade.
MaxCalls == 2

\* Number of other attributes looked up on one facade.
MaxForwards == 2

----------------------------------------------------------------------------
\* Values

None == "None"

\* Constructor arguments tried (host, port, secure, window_manager,
\* enable_push, **kwargs).
Hosts == {"http2bin.org", "http2bin.org:443"}
Ports == {None, "8443"}
Secures == {None, "True"}
WindowManagers == {None, "W"}
EnablePushes == {"False", "True"}
ExtraKeys == {"extra_key"}
ExtraKwargs == UNION {[K -> {"v"}] : K \in SUBSET ExtraKeys}

\* request() arguments tried.
Requests ==
    { [method |-> "GET", url |-> "/a", body |-> None, headers |-> {<<"X", "1">>}],
      [method |-> "POST", url |-> "/b", body |-> "data", headers |-> {}] }

\* Attributes HTTPConnection does not define itself.
Capabilities == {"get_response"}

NoRequest == [method |-> None, url |-> None, body |-> None, headers |-> {}]

\* hyper.tls.H2_NPN_PROTOCOLS (imported at line 11).
H2_NPN_PROTOCOLS == {"h2", "h2-16", "h2-15", "h2-14"}

\* Protocol names a TLSUpgrade may carry in e.negotiated.
Negotiated == {"h2", "http/1.1"}

\* What a call on a backing object produces: a returned value or a raised
\* exception.  val is 0 for Python's None and a stream id otherwise.
Return(v) ==
    [type |-> "return", val |-> v, exc |-> None, negotiated |-> None, sock |-> 0]

Raise(x) ==
    [type |-> "raise", val |-> 0, exc |-> x, negotiated |-> None, sock |-> 0]

\* hyper.common.exceptions.TLSUpgrade (imported at line 8): carries the
\* negotiated protocol and the wrapped socket.
TLSUpgrade(n, s) ==
    [type |-> "raise", val |-> 0, exc |-> "TLSUpgrade", negotiated |-> n, sock |-> s]

Pending ==
    [type |-> "pending", val |-> 0, exc |-> None, negotiated |-> None, sock |-> 0]

IsTLSUpgrade(o) == o.type = "raise" /\ o.exc = "TLSUpgrade"

----------------------------------------------------------------------------
\* State

VARIABLES
    _host,        \* self._host
    _port,        \* self._port
    _h1_kwargs,   \* self._h1_kwargs
    _h2_kwargs,   \* self._h2_kwargs
    _conn,        \* self._conn: index into transports of the backing object
    transports,   \* every connection object constructed so far, in order
    calls,        \* every request() call made so far, in order
    log,          \* every call made on a connection object so far, in order
    nsock,        \* number of sockets handed out by TLS negotiation
    given         \* the arguments __init__ was called with

vars ==
    <<_host, _port, _h1_kwargs, _h2_kwargs, _conn, transports, calls, log, nsock,
      given>>

facade == <<_host, _port, _h1_kwargs, _h2_kwargs, given>>

----------------------------------------------------------------------------
\* Dictionaries

\* dict.update(other): other's keys are added, other's values win.
DictUpdate(d, other) ==
    [k \in DOMAIN d \cup DOMAIN other |-> IF k \in DOMAIN other THEN other[k] ELSE d[k]]

\* self._h1_kwargs after lines 53 and 59.
H1Kwargs(secure, kwargs) ==
    DictUpdate([k \in {"secure"} |-> secure], kwargs)

\* Mutant of H2Kwargs: the update of line 60 is missing.
H2Kwargs_noExtras(window_manager, enable_push, kwargs) ==
    [k \in {"window_manager", "enable_push"} |->
        IF k = "window_manager" THEN window_manager ELSE enable_push]

\* self._h2_kwargs after lines 54-56 and 60.
H2Kwargs(window_manager, enable_push, kwargs) ==
    DictUpdate([k \in {"window_manager", "enable_push"} |->
                    IF k = "window_manager" THEN window_manager ELSE enable_push],
               kwargs)

----------------------------------------------------------------------------
\* The backing connection objects (imported classes)

\* One call made on connection object t, as the object saw it; c is the
\* request() call that made it.
Event(t, op, c, args, out) ==
    [t |-> t, op |-> op, call |-> c, args |-> args, out |-> out]

\* HTTP11Connection(host, port, **kwargs): a new object, no socket yet.
\* by is the request() call that constructed it, 0 for __init__; born is
\* the length of log when it was constructed.
HTTP11Connection(host, port, kwargs) ==
    [kind |-> "h11", host |-> host, port |-> port, kwargs |-> kwargs,
     _sock |-> 0, by |-> 0, born |-> 0]

\* HTTP20Connection(host, port, **kwargs): a new object; construction opens
\* no connection, so it holds no socket.
HTTP20Connection(host, port, kwargs, c) ==
    [kind |-> "h20", host |-> host, port |-> port, kwargs |-> kwargs,
     _sock |-> 0, by |-> c, born |-> Len(log)]

\* The number of requests connection object t has been given.
NumRequests(t) ==
    Cardinality({i \in DOMAIN log : log[i].t = t /\ log[i].op = "request"})

\* The stream id an HTTP/2 connection gives its next request: 1, 3, 5, ...
StreamId(t) == 2 * NumRequests(t) + 1

\* What conn.request(...) may do: HTTP/1.1 returns None, HTTP/2 returns a
\* stream id; either may raise TLSUpgrade with a newly negotiated socket, or
\* some other exception.
RequestOutcomes(t) ==
    {IF transports[t].kind = "h11" THEN Return(0) ELSE Return(StreamId(t))}
        \cup {TLSUpgrade(n, nsock + 1) : n \in Negotiated}
        \cup {Raise("ConnectionError")}

\* What conn._send_preamble() may do.
PreambleOutcomes == {Return(0), Raise("ConnectionError")}

\* What getattr(conn, name) may do: give the attribute or raise.
GetattrOutcomes == {Return(0), Raise("AttributeError")}

\* What the HTTP20Connection constructor may do.
ConstructOutcomes == {Return(0), Raise("TypeError")}

NextSock(out) == IF IsTLSUpgrade(out) THEN nsock + 1 ELSE nsock

----------------------------------------------------------------------------
\* HTTPConnection.__init__

\* Mutant of InitTransports: __init__ builds the HTTP/2 object as well.
InitTransports_eager(host, port, h1_kwargs, h2_kwargs) ==
    << HTTP11Connection(host, port, h1_kwargs),
       HTTP20Connection(host, port, h2_kwargs, 0) >>

\* The connection objects that exist when __init__ returns (lines 62-64).
InitTransports(host, port, h1_kwargs, h2_kwargs) ==
    << HTTP11Connection(host, port, h1_kwargs) >>

Init ==
    \E host \in Hosts, port \in Ports, secure \in Secures,
       window_manager \in WindowManagers, enable_push \in EnablePushes,
       kwargs \in ExtraKwargs :
        /\ log = <<>>
        /\ _host = host
        /\ _port = port
        /\ _h1_kwargs = H1Kwargs(secure, kwargs)
        /\ _h2_kwargs = H2Kwargs(window_manager, enable_push, kwargs)
        /\ transports = InitTransports(_host, _port, _h1_kwargs, _h2_kwargs)
        /\ _conn = 1
        /\ calls = <<>>
        /\ nsock = 0
        /\ given = [host |-> host, port |-> port, secure |-> secure,
                    window_manager |-> window_manager,
                    enable_push |-> enable_push, kwargs |-> kwargs]

----------------------------------------------------------------------------
\* HTTPConnection.request

\* request() is not invoked by more than one caller at a time on one facade.
Serialized == \A c \in DOMAIN calls : calls[c].pc = "done"

\* The record of a request() call that has just run lines 83-87 with
\* outcome out of the forwarded request.  overlapped tells whether another
\* call was inside request() when this one entered.
Entered(args, out) ==
    [pc |-> IF IsTLSUpgrade(out) THEN "L91" ELSE "done",
     overlapped |-> ~Serialized,
     args |-> args,
     e |-> IF IsTLSUpgrade(out) THEN out ELSE Pending,
     first |-> _conn,
     built |-> 0,
     preamble |-> "none",
     outcome |-> IF IsTLSUpgrade(out) THEN Pending ELSE out]

\* Mutant of request_try: the headers are not passed on.
request_try_noHeaders(args, out) ==
    /\ Len(calls) < MaxCalls
    /\ Serialized
    /\ out \in RequestOutcomes(_conn)
    /\ log' = Append(log, Event(_conn, "request", Len(calls) + 1,
                                [args EXCEPT !.headers = {}], out))
    /\ calls' = Append(calls, Entered(args, out))
    /\ nsock' = NextSock(out)
    /\ UNCHANGED <<facade, _conn, transports>>

\* Mutant of request_try: a failed request is tried once more.
request_try_retry(args, out) ==
    /\ Len(calls) < MaxCalls
    /\ Serialized
    /\ out \in RequestOutcomes(_conn)
    /\ log' = IF out.type = "raise" /\ ~IsTLSUpgrade(out)
              THEN Append(Append(log, Event(_conn, "request", Len(calls) + 1, args, out)),
                          Event(_conn, "request", Len(calls) + 1, args, out))
              ELSE Append(log, Event(_conn, "request", Len(calls) + 1, args, out))
    /\ calls' = Append(calls, Entered(args, out))
    /\ nsock' = NextSock(out)
    /\ UNCHANGED <<facade, _conn, transports>>

\* Mutant of request_try: the request goes to the object built by __init__.
request_try_atInit(args, out) ==
    /\ Len(calls) < MaxCalls
    /\ Serialized
    /\ out \in RequestOutcomes(1)
    /\ log' = Append(log, Event(1, "request", Len(calls) + 1, args, out))
    /\ calls' = Append(calls, Entered(args, out))
    /\ nsock' = NextSock(out)
    /\ UNCHANGED <<facade, _conn, transports>>

\* Lines 83-87: the call enters, self._conn.request(...) runs with the
\* caller's arguments; its value is returned, TLSUpgrade is caught, any
\* other exception propagates.
request_try(args, out) ==
    /\ Len(calls) < MaxCalls
    /\ Serialized
    /\ out \in RequestOutcomes(_conn)
    /\ log' = Append(log, Event(_conn, "request", Len(calls) + 1, args, out))
    /\ calls' = Append(calls, Entered(args, out))
    /\ nsock' = NextSock(out)
    /\ UNCHANGED <<facade, _conn, transports>>

\* The threads that call request() when callers do not take turns; each is
\* inside request() at most once.
Callers == {"A", "B"}

\* Lines 83-87 when callers do not take turns: request() holds no lock, so
\* a call may enter while another is inside.
request_try_unserialized(args, out) ==
    /\ Len(calls) < MaxCalls
    /\ Cardinality({c \in DOMAIN calls : calls[c].pc # "done"}) < Cardinality(Callers)
    /\ out \in RequestOutcomes(_conn)
    /\ log' = Append(log, Event(_conn, "request", Len(calls) + 1, args, out))
    /\ calls' = Append(calls, Entered(args, out))
    /\ nsock' = NextSock(out)
    /\ UNCHANGED <<facade, _conn, transports>>

\* Mutant of NegotiatedOk: the negotiated protocol is not checked.
NegotiatedOk_unchecked(e) == TRUE

\* Line 91: the condition of the assert.
NegotiatedOk(e) == e.negotiated \in H2_NPN_PROTOCOLS

\* Mutant of request_assert: the protocol is checked after the new object
\* has been installed.
request_assert_afterSwap(c) ==
    /\ calls[c].pc = "L91"
    /\ IF NegotiatedOk(calls[c].e)
       THEN /\ calls' = [calls EXCEPT ![c].pc = "L93"]
            /\ UNCHANGED <<transports, _conn>>
       ELSE /\ transports' = Append(transports,
                    HTTP20Connection(_host, _port, _h2_kwargs, c))
            /\ _conn' = Len(transports) + 1
            /\ calls' = [calls EXCEPT ![c].pc = "done",
                                      ![c].outcome = Raise("AssertionError")]
    /\ UNCHANGED <<facade, log, nsock>>

\* Line 91: assert e.negotiated in H2_NPN_PROTOCOLS.
request_assert(c) ==
    /\ calls[c].pc = "L91"
    /\ calls' = IF NegotiatedOk(calls[c].e)
                THEN [calls EXCEPT ![c].pc = "L93"]
                ELSE [calls EXCEPT ![c].pc = "done",
                                   ![c].outcome = Raise("AssertionError")]
    /\ UNCHANGED <<facade, _conn, transports, log, nsock>>

\* Mutant of request_construct: the port is not passed on.
request_construct_noPort(c, out) ==
    /\ calls[c].pc = "L93"
    /\ out \in ConstructOutcomes
    /\ IF out.type = "return"
       THEN /\ transports' = Append(transports,
                    HTTP20Connection(_host, None, _h2_kwargs, c))
            /\ _conn' = Len(transports) + 1
            /\ calls' = [calls EXCEPT ![c].pc = "L96",
                                      ![c].built = Len(transports) + 1]
       ELSE /\ calls' = [calls EXCEPT ![c].pc = "done", ![c].outcome = out]
            /\ UNCHANGED <<transports, _conn>>
    /\ UNCHANGED <<facade, log, nsock>>

\* Mutant of request_construct: the HTTP/1.1 keyword arguments are passed.
request_construct_h1_kwargs(c, out) ==
    /\ calls[c].pc = "L93"
    /\ out \in ConstructOutcomes
    /\ IF out.type = "return"
       THEN /\ transports' = Append(transports,
                    HTTP20Connection(_host, _port, _h1_kwargs, c))
            /\ _conn' = Len(transports) + 1
            /\ calls' = [calls EXCEPT ![c].pc = "L96",
                                      ![c].built = Len(transports) + 1]
       ELSE /\ calls' = [calls EXCEPT ![c].pc = "done", ![c].outcome = out]
            /\ UNCHANGED <<transports, _conn>>
    /\ UNCHANGED <<facade, log, nsock>>

\* Mutant of request_construct: the socket is inserted before the new
\* object becomes self._conn.
request_construct_withSock(c, out) ==
    /\ calls[c].pc = "L93"
    /\ out \in ConstructOutcomes
    /\ IF out.type = "return"
       THEN /\ transports' = Append(transports,
                    [HTTP20Connection(_host, _port, _h2_kwargs, c)
                        EXCEPT !._sock = calls[c].e.sock])
            /\ _conn' = Len(transports) + 1
            /\ calls' = [calls EXCEPT ![c].pc = "L96",
                                      ![c].built = Len(transports) + 1]
       ELSE /\ calls' = [calls EXCEPT ![c].pc = "done", ![c].outcome = out]
            /\ UNCHANGED <<transports, _conn>>
    /\ UNCHANGED <<facade, log, nsock>>

\* Mutant of request_construct: nothing is built when self._conn is an
\* HTTP20Connection already.
request_construct_once(c, out) ==
    /\ calls[c].pc = "L93"
    /\ out \in ConstructOutcomes
    /\ IF transports[_conn].kind = "h20"
       THEN /\ calls' = [calls EXCEPT ![c].pc = "L96"]
            /\ UNCHANGED <<transports, _conn>>
       ELSE IF out.type = "return"
       THEN /\ transports' = Append(transports,
                    HTTP20Connection(_host, _port, _h2_kwargs, c))
            /\ _conn' = Len(transports) + 1
            /\ calls' = [calls EXCEPT ![c].pc = "L96",
                                      ![c].built = Len(transports) + 1]
       ELSE /\ calls' = [calls EXCEPT ![c].pc = "done", ![c].outcome = out]
            /\ UNCHANGED <<transports, _conn>>
    /\ UNCHANGED <<facade, log, nsock>>

\* Lines 93-95: self._conn = HTTP20Connection(self._host, self._port,
\* **self._h2_kwargs).  When the constructor raises, nothing is assigned.
request_construct(c, out) ==
    /\ calls[c].pc = "L93"
    /\ out \in ConstructOutcomes
    /\ IF out.type = "return"
       THEN /\ transports' = Append(transports,
                    HTTP20Connection(_host, _port, _h2_kwargs, c))
            /\ _conn' = Len(transports) + 1
            /\ calls' = [calls EXCEPT ![c].pc = "L96",
                                      ![c].built = Len(transports) + 1]
       ELSE /\ calls' = [calls EXCEPT ![c].pc = "done", ![c].outcome = out]
            /\ UNCHANGED <<transports, _conn>>
    /\ UNCHANGED <<facade, log, nsock>>

\* Mutant of request_set_sock: the socket is not inserted.
request_set_sock_skip(c) ==
    /\ calls[c].pc = "L96"
    /\ calls' = [calls EXCEPT ![c].pc = "L100"]
    /\ UNCHANGED <<facade, _conn, transports, log, nsock>>

\* Line 96: self._conn._sock = e.sock
request_set_sock(c) ==
    /\ calls[c].pc = "L96"
    /\ transports' = [transports EXCEPT ![_conn]._sock = calls[c].e.sock]
    /\ calls' = [calls EXCEPT ![c].pc = "L100"]
    /\ UNCHANGED <<facade, _conn, log, nsock>>

\* Mutant of request_send_preamble: the preamble is not sent.
request_send_preamble_skip(c, out) ==
    /\ calls[c].pc = "L100"
    /\ out \in PreambleOutcomes
    /\ calls' = [calls EXCEPT ![c].pc = "L102"]
    /\ UNCHANGED <<facade, _conn, transports, log, nsock>>

\* Line 100: self._conn._send_preamble()
request_send_preamble(c, out) ==
    /\ calls[c].pc = "L100"
    /\ out \in PreambleOutcomes
    /\ log' = Append(log, Event(_conn, "preamble", c, NoRequest, out))
    /\ calls' = IF out.type = "return"
                THEN [calls EXCEPT ![c].pc = "L102", ![c].preamble = "ok"]
                ELSE [calls EXCEPT ![c].pc = "done", ![c].preamble = "fail",
                                   ![c].outcome = out]
    /\ UNCHANGED <<facade, _conn, transports, nsock>>

\* Mutant of request_replay: the body is not passed on.
request_replay_noBody(c, out) ==
    /\ calls[c].pc = "L102"
    /\ out \in RequestOutcomes(_conn)
    /\ log' = Append(log, Event(_conn, "request", c,
                                [calls[c].args EXCEPT !.body = None], out))
    /\ calls' = [calls EXCEPT ![c].pc = "done", ![c].outcome = out]
    /\ nsock' = NextSock(out)
    /\ UNCHANGED <<facade, _conn, transports>>

\* Mutant of request_replay: a failed replay puts the old object back.
request_replay_rollback(c, out) ==
    /\ calls[c].pc = "L102"
    /\ out \in RequestOutcomes(_conn)
    /\ log' = Append(log, Event(_conn, "request", c, calls[c].args, out))
    /\ calls' = [calls EXCEPT ![c].pc = "done", ![c].outcome = out]
    /\ nsock' = NextSock(out)
    /\ _conn' = IF out.type = "raise" THEN calls[c].first ELSE _conn
    /\ UNCHANGED <<facade, transports>>

\* Mutant of request_replay: a TLSUpgrade raised by the replay is handled
\* like the first one.
request_replay_reupgrade(c, out) ==
    /\ calls[c].pc = "L102"
    /\ out \in RequestOutcomes(_conn)
    /\ log' = Append(log, Event(_conn, "request", c, calls[c].args, out))
    /\ calls' = IF IsTLSUpgrade(out)
                THEN [calls EXCEPT ![c].pc = "L91", ![c].e = out]
                ELSE [calls EXCEPT ![c].pc = "done", ![c].outcome = out]
    /\ nsock' = NextSock(out)
    /\ UNCHANGED <<facade, _conn, transports>>

\* Lines 102-104: return self._conn.request(...) with the caller's
\* arguments; outside the try, so whatever it raises propagates.
request_replay(c, out) ==
    /\ calls[c].pc = "L102"
    /\ out \in RequestOutcomes(_conn)
    /\ log' = Append(log, Event(_conn, "request", c, calls[c].args, out))
    /\ calls' = [calls EXCEPT ![c].pc = "done", ![c].outcome = out]
    /\ nsock' = NextSock(out)
    /\ UNCHANGED <<facade, _conn, transports>>

----------------------------------------------------------------------------
\* HTTPConnection.__getattr__

\* The attribute lookups forwarded so far.
Forwards == {i \in DOMAIN log : log[i].op \in Capabilities}

\* Mutant of __getattr__: the attribute is looked up on the object built by
\* __init__.
getattr_atInit(name, out) ==
    /\ Cardinality(Forwards) < MaxForwards
    /\ Serialized
    /\ out \in GetattrOutcomes
    /\ log' = Append(log, Event(1, name, 0, NoRequest, out))
    /\ UNCHANGED <<facade, _conn, transports, calls, nsock>>

\* Lines 107-108: return getattr(self._conn, name), for a name the facade
\* does not define, looked up between request() calls.
__getattr__(name, out) ==
    /\ Cardinality(Forwards) < MaxForwards
    /\ Serialized
    /\ out \in GetattrOutcomes
    /\ log' = Append(log, Event(_conn, name, 0, NoRequest, out))
    /\ UNCHANGED <<facade, _conn, transports, calls, nsock>>

----------------------------------------------------------------------------
\* Specification

Next ==
    \/ \E args \in Requests, out \in RequestOutcomes(_conn) :
            request_try(args, out)
    \/ \E c \in DOMAIN calls : request_assert(c)
    \/ \E c \in DOMAIN calls, out \in ConstructOutcomes : request_construct(c, out)
    \/ \E c \in DOMAIN calls : request_set_sock(c)
    \/ \E c \in DOMAIN calls, out \in PreambleOutcomes : request_send_preamble(c, out)
    \/ \E c \in DOMAIN calls, out \in RequestOutcomes(_conn) :
            request_replay(c, out)

Spec == Init /\ [][Next]_vars

\* The configuration of the documented example.
InitExample ==
    /\ Init
    /\ given = [host |-> "http2bin.org:443", port |-> None, secure |-> "True",
                window_manager |-> "W", enable_push |-> "True",
                kwargs |-> [k \in {"extra_key"} |-> "v"]]

\* request() and forwarded attribute lookups, one caller at a time.
NextFwd ==
    \/ Next
    \/ \E name \in Capabilities, out \in GetattrOutcomes : __getattr__(name, out)

SpecFwd == InitExample /\ [][NextFwd]_vars

\* The request each of the callers that do not take turns makes.
ConcRequests == {r \in Requests : r.method = "GET"}

\* request() called by callers that do not take turns.
NextConc ==
    \/ \E args \in ConcRequests, out \in RequestOutcomes(_conn) :
            request_try_unserialized(args, out)
    \/ \E c \in DOMAIN calls : request_assert(c)
    \/ \E c \in DOMAIN calls, out \in ConstructOutcomes : request_construct(c, out)
    \/ \E c \in DOMAIN calls : request_set_sock(c)
    \/ \E c \in DOMAIN calls, out \in PreambleOutcomes : request_send_preamble(c, out)
    \/ \E c \in DOMAIN calls, out \in RequestOutcomes(_conn) :
            request_replay(c, out)

SpecConc == InitExample /\ [][NextConc]_vars

----------------------------------------------------------------------------
\* Reading the histories

Kind(t) == transports[t].kind

Done(c) == calls[c].pc = "done"

\* The request() calls that caught a TLSUpgrade.
CaughtSignal(c) == IsTLSUpgrade(calls[c].e)

\* The positions in log at which call c invoked request on a connection
\* object.
ReqEvents(c) ==
    {i \in DOMAIN log : log[i].op = "request" /\ log[i].call = c}

\* The invocations call c made on the object that was active when it entered
\* (the forward of line 84), and those it made on HTTP/2 objects built later.
ForwardEvents(c) == {i \in ReqEvents(c) : log[i].t = calls[c].first}

ReplayEvents(c) == {i \in ReqEvents(c) : log[i].t # calls[c].first}

\* The calls that constructed and installed an HTTP20Connection.
Swaps == {c \in DOMAIN calls : calls[c].built # 0}

----------------------------------------------------------------------------
\* Properties

\* C1 (as claimed): over any sequence of request calls on one facade the
\* active transport is replaced at most once: at most one call constructs
\* and installs an HTTP20Connection, even when the HTTP/2 object's own
\* request raises TLSUpgrade.
C1_AtMostOneSwap == Cardinality(Swaps) <= 1

\* C2: in every request call that handles a TLSUpgrade, each request the
\* call issues on the HTTP20Connection it built comes after a successful
\* _send_preamble of the same call on that object, and a call whose preamble
\* was not sent successfully issues no request beyond its first forward.
C2_PreambleBeforeReplay ==
    \A c \in DOMAIN calls :
        /\ \A i \in ReplayEvents(c) :
              /\ log[i].t = calls[c].built
              /\ \E j \in 1..(i - 1) :
                    /\ log[j].op = "preamble"
                    /\ log[j].t = log[i].t
                    /\ log[j].call = c
                    /\ log[j].out.type = "return"
        /\ calls[c].preamble # "ok" => ReplayEvents(c) = {}

\* A call caught TLSUpgrade, sent the preamble and replayed the request.
C2_Witness ==
    \E c \in DOMAIN calls :
        /\ CaughtSignal(c) /\ Done(c) /\ calls[c].preamble = "ok"
        /\ ReplayEvents(c) # {}

\* A call caught TLSUpgrade from the HTTP/1.1 object and has finished with
\* exactly one replay, made with the caller's arguments on the HTTP/2 object
\* it built, whose outcome is the call's outcome.
ReplayedFaithfully(c) ==
    /\ Cardinality(ReplayEvents(c)) = 1
    /\ \A i \in ReplayEvents(c) :
          /\ Kind(log[i].t) = "h20"
          /\ log[i].args = calls[c].args
          /\ log[i].out = calls[c].outcome

\* C3 (as claimed): whenever the HTTP/1.1 object raises TLSUpgrade during
\* request(method, url, body, headers), the HTTP/2 object's request is
\* invoked exactly once within that call with the same arguments and the
\* call's result is the result of that replay.
C3_ReplayOnEverySignal ==
    \A c \in DOMAIN calls :
        (Done(c) /\ CaughtSignal(c) /\ Kind(calls[c].first) = "h11")
            => ReplayedFaithfully(c)

\* C3 (amended): a call that caught TLSUpgrade from the HTTP/1.1 object
\* never invokes the HTTP/2 object's request more than once nor with other
\* arguments than the caller's; and when the negotiated protocol is in
\* H2_NPN_PROTOCOLS, the HTTP20Connection was constructed and the preamble
\* was sent, the finished call has made exactly one replay, with the
\* caller's arguments, whose outcome is the call's outcome.
C3_ReplayFidelity ==
    \A c \in DOMAIN calls :
        (CaughtSignal(c) /\ Kind(calls[c].first) = "h11") =>
            /\ Cardinality(ReplayEvents(c)) <= 1
            /\ \A i \in ReplayEvents(c) : log[i].args = calls[c].args
            /\ ( /\ Done(c)
                 /\ calls[c].e.negotiated \in H2_NPN_PROTOCOLS
                 /\ calls[c].built # 0
                 /\ calls[c].preamble = "ok" ) => ReplayedFaithfully(c)

\* A POST with a body was replayed on the HTTP/2 object and returned its
\* stream id.
C3_Witness ==
    \E c \in DOMAIN calls :
        /\ Done(c) /\ CaughtSignal(c) /\ Kind(calls[c].first) = "h11"
        /\ calls[c].args.body # None
        /\ calls[c].outcome.type = "return"
        /\ ReplayedFaithfully(c)

\* C4: once line 96 has run, the socket held by the active HTTP/2 object is
\* the socket carried by the TLSUpgrade that the call which built it caught,
\* and no object holds a socket other than one carried by a caught signal.
C4_SocketReuse ==
    /\ Kind(_conn) = "h20" =>
          LET c == transports[_conn].by IN
              calls[c].pc # "L96" =>
                  /\ transports[_conn]._sock = calls[c].e.sock
                  /\ transports[_conn]._sock # 0
    /\ \A t \in DOMAIN transports :
          transports[t]._sock # 0 =>
              \E c \in DOMAIN calls :
                  CaughtSignal(c) /\ calls[c].e.sock = transports[t]._sock

\* An upgrade has completed and its call has returned.
C4_Witness ==
    /\ Kind(_conn) = "h20"
    /\ Done(transports[_conn].by)
    /\ calls[transports[_conn].by].outcome.type = "return"
    /\ transports[_conn]._sock = calls[transports[_conn].by].e.sock

\* C5: a call that caught a TLSUpgrade whose negotiated protocol is not in
\* H2_NPN_PROTOCOLS constructs no HTTP20Connection, sends no preamble,
\* issues no request beyond its first forward, and ends by raising
\* AssertionError.
C5_FatalContract ==
    \A c \in DOMAIN calls :
        (CaughtSignal(c) /\ calls[c].e.negotiated \notin H2_NPN_PROTOCOLS) =>
            /\ calls[c].pc \in {"L91", "done"}
            /\ calls[c].built = 0
            /\ \A t \in DOMAIN transports : transports[t].by # c
            /\ calls[c].preamble = "none"
            /\ ReplayEvents(c) = {}
            /\ Done(c) => calls[c].outcome = Raise("AssertionError")

\* A call caught TLSUpgrade with negotiated = "http/1.1" and has ended.
C5_Witness ==
    \E c \in DOMAIN calls :
        /\ CaughtSignal(c) /\ calls[c].e.negotiated \notin H2_NPN_PROTOCOLS
        /\ Done(c)

\* C6: the facade always holds one backing object, and once the backing
\* object is an HTTP20Connection it is one after every step.
C6_Monotonic ==
    /\ _conn \in DOMAIN transports
    /\ [][ /\ _conn' \in DOMAIN transports'
           /\ Kind(_conn) = "h20" => transports'[_conn'].kind = "h20" ]_vars

\* A request was forwarded to an HTTP/2 backing object by a later call, and
\* the replay of an upgrade has failed.
C6_Witness ==
    /\ Kind(_conn) = "h20"
    /\ \E c \in DOMAIN calls : Done(c) /\ Kind(calls[c].first) = "h20"
    /\ \E c \in DOMAIN calls :
          Done(c) /\ calls[c].preamble = "ok" /\ calls[c].outcome.type = "raise"

\* C7: when __init__ has returned and no request has been made, exactly one
\* connection object exists and it is the HTTP/1.1 one; every
\* HTTP20Connection was constructed by a request call that caught TLSUpgrade.
C7_NoEagerH2 ==
    /\ calls = <<>> => (Len(transports) = 1 /\ Kind(1) = "h11" /\ _conn = 1)
    /\ \A t \in DOMAIN transports :
          Kind(t) = "h20" =>
              /\ transports[t].by \in DOMAIN calls
              /\ CaughtSignal(transports[t].by)
              /\ calls[transports[t].by].built = t

\* Just constructed with HTTP/2 options given.
C7_Witness ==
    /\ calls = <<>>
    /\ given.window_manager = "W" /\ given.enable_push = "True"
    /\ Kind(_conn) = "h11"

\* C8: a finished call during which no TLSUpgrade was raised invoked request
\* exactly once, on the object that was active when it entered, with the
\* caller's arguments; its outcome is that invocation's outcome; it built
\* nothing and the active object is the same afterwards.
C8_NoSignalForwarding ==
    \A c \in DOMAIN calls :
        (Done(c) /\ \A i \in ReqEvents(c) : ~IsTLSUpgrade(log[i].out)) =>
            /\ Cardinality(ReqEvents(c)) = 1
            /\ \A i \in ReqEvents(c) :
                  /\ log[i].t = calls[c].first
                  /\ log[i].args = calls[c].args
                  /\ log[i].out = calls[c].outcome
            /\ calls[c].built = 0
            /\ c = Len(calls) => _conn = calls[c].first

\* Requests with headers were forwarded without a signal to the HTTP/1.1
\* object and, later, to the HTTP/2 object, and returned.
C8_Witness ==
    /\ \E c \in DOMAIN calls :
          /\ Done(c) /\ ~CaughtSignal(c) /\ Kind(calls[c].first) = "h20"
          /\ calls[c].args.headers # {} /\ calls[c].outcome.type = "return"
          /\ calls[c].outcome.val # 0
    /\ Len(calls) = MaxCalls

\* C9: the HTTP/1.1 mapping holds exactly secure plus every extra option,
\* the HTTP/2 mapping exactly window_manager and enable_push plus every
\* extra option, each with the value given.
C9_ConfigPartition ==
    /\ DOMAIN _h1_kwargs = {"secure"} \cup DOMAIN given.kwargs
    /\ DOMAIN _h2_kwargs = {"window_manager", "enable_push"} \cup DOMAIN given.kwargs
    /\ _h1_kwargs["secure"] = given.secure
    /\ _h2_kwargs["window_manager"] = given.window_manager
    /\ _h2_kwargs["enable_push"] = given.enable_push
    /\ \A k \in DOMAIN given.kwargs :
          _h1_kwargs[k] = given.kwargs[k] /\ _h2_kwargs[k] = given.kwargs[k]
    /\ "secure" \notin DOMAIN _h2_kwargs
    /\ {"window_manager", "enable_push"} \cap DOMAIN _h1_kwargs = {}

\* The example: secure, a window manager, push enabled and one extra option.
C9_Witness ==
    /\ given.secure = "True" /\ given.window_manager = "W"
    /\ given.enable_push = "True" /\ DOMAIN given.kwargs = {"extra_key"}
    /\ _h1_kwargs["extra_key"] = "v" /\ _h2_kwargs["extra_key"] = "v"

\* C10: when the forward of line 84 raises something other than TLSUpgrade,
\* the call ends raising that same exception, has invoked request exactly
\* once, has built no connection object, and the active object is the same
\* afterwards.
C10_FailurePropagation ==
    \A c \in DOMAIN calls :
        \A i \in ForwardEvents(c) :
            (log[i].out.type = "raise" /\ ~IsTLSUpgrade(log[i].out)) =>
                /\ Done(c)
                /\ calls[c].outcome = log[i].out
                /\ Cardinality(ReqEvents(c)) = 1
                /\ calls[c].built = 0
                /\ \A t \in DOMAIN transports : transports[t].by # c
                /\ c = Len(calls) => _conn = calls[c].first

\* After an upgrade, the HTTP/2 object raised ConnectionError on a request
\* forwarded by a later call.
C10_Witness ==
    \E c \in DOMAIN calls :
        /\ Done(c) /\ ~CaughtSignal(c) /\ Kind(calls[c].first) = "h20"
        /\ calls[c].outcome = Raise("ConnectionError")

\* C11: when the replay on the HTTP20Connection a call has just installed
\* raises anything, TLSUpgrade included, the call ends raising exactly that,
\* has replayed once, has built one connection object only, and the object
\* it built is the active one afterwards.
C11_ReplayFailure ==
    \A c \in DOMAIN calls :
        \A i \in ReplayEvents(c) :
            log[i].out.type = "raise" =>
                /\ Done(c)
                /\ calls[c].outcome = log[i].out
                /\ Cardinality(ReplayEvents(c)) = 1
                /\ Cardinality({t \in DOMAIN transports : transports[t].by = c}) = 1
                /\ calls[c].built # 0 /\ Kind(calls[c].built) = "h20"
                /\ c = Len(calls) => _conn = calls[c].built

\* The replay of an upgrade raised TLSUpgrade, and the replay of another
\* raised ConnectionError.
C11_Witness ==
    /\ \E c \in DOMAIN calls : \E i \in ReplayEvents(c) :
          Done(c) /\ IsTLSUpgrade(log[i].out)
    /\ \E c \in DOMAIN calls : \E i \in ReplayEvents(c) :
          Done(c) /\ log[i].out = Raise("ConnectionError")

\* The connection object that was self._conn when log had n entries.
ActiveAt(n) ==
    CHOOSE t \in DOMAIN transports :
        /\ transports[t].born <= n
        /\ \A u \in DOMAIN transports : transports[u].born <= n => u <= t

\* C12: every forwarded attribute lookup is made on the connection object
\* that is active when the lookup happens: on the HTTP/1.1 object before an
\* upgrade, on the HTTP/2 object installed last after it.
C12_LateBound ==
    \A i \in Forwards : log[i].t = ActiveAt(i - 1)

\* The same attribute was looked up before the upgrade, on the HTTP/1.1
\* object, and after it, on the HTTP/2 object.
C12_Witness ==
    \E i \in Forwards : \E j \in Forwards :
        /\ i < j /\ log[i].op = log[j].op
        /\ Kind(log[i].t) = "h11" /\ Kind(log[j].t) = "h20"
        /\ log[j].t = _conn

\* The port a host string of Hosts embeds, and the host name without it.
EmbeddedPort(host) == IF host = "http2bin.org:443" THEN "443" ELSE None

HostName(host) == IF host = "http2bin.org:443" THEN "http2bin.org" ELSE host

\* C13 (as claimed): when the host string embeds a port, the facade holds
\* the host name without it and the embedded port as its one port, whatever
\* the port argument, and that port is the one passed to the
\* HTTP20Connection on upgrade.
C13_EmbeddedPortSplit ==
    EmbeddedPort(given.host) # None =>
        /\ _host = HostName(given.host)
        /\ _port = EmbeddedPort(given.host)
        /\ \A t \in DOMAIN transports :
              Kind(t) = "h20" => transports[t].port = EmbeddedPort(given.host)

\* C13 (amended): the facade holds the host string and the port argument
\* exactly as given, an embedded port left inside the host string, and those
\* two values are passed to every connection object it constructs.
C13_HostPortVerbatim ==
    /\ _host = given.host
    /\ _port = given.port
    /\ \A t \in DOMAIN transports :
          transports[t].host = given.host /\ transports[t].port = given.port

\* A facade given host "http2bin.org:443" and another port has upgraded.
C13_Witness ==
    /\ EmbeddedPort(given.host) # None
    /\ given.port # None /\ given.port # EmbeddedPort(given.host)
    /\ Kind(_conn) = "h20"
    /\ _host = given.host /\ transports[_conn].port = given.port

\* C14: every HTTP20Connection is constructed with the host and port given
\* to __init__ and with the HTTP/2 mapping computed there, not the HTTP/1.1
\* one, however many requests came before.
C14_UpgradeArguments ==
    \A t \in DOMAIN transports :
        Kind(t) = "h20" =>
            /\ transports[t].host = given.host
            /\ transports[t].port = given.port
            /\ transports[t].kwargs =
                  H2Kwargs(given.window_manager, given.enable_push, given.kwargs)
            /\ transports[t].kwargs = _h2_kwargs
            /\ transports[t].kwargs # transports[1].kwargs

\* An upgrade in the second call, after a request served over HTTP/1.1,
\* with an extra option given.
C14_Witness ==
    /\ Len(calls) = 2 /\ Done(2)
    /\ ~CaughtSignal(1) /\ calls[1].outcome.type = "return"
    /\ calls[2].built # 0 /\ calls[2].built = _conn
    /\ DOMAIN given.kwargs # {}
    /\ transports[_conn].kwargs = _h2_kwargs

\* C15 (as claimed): the socket is inside the new HTTP20Connection before
\* it becomes the active object: whenever the active object is an
\* HTTP20Connection it holds the socket of the TLSUpgrade its call caught.
C15_SocketBeforeInstall ==
    Kind(_conn) = "h20" =>
        transports[_conn]._sock = calls[transports[_conn].by].e.sock

\* C15 (amended): the new HTTP20Connection becomes the active object first
\* (line 93) and receives the socket next (line 96): between the two the
\* active object is an HTTP20Connection without socket; every call the
\* facade makes on it (preamble, replay, later requests) comes after the
\* socket of the caught TLSUpgrade was inserted.
C15_InstallThenSocket ==
    /\ \A c \in DOMAIN calls :
          calls[c].pc = "L96" =>
              /\ _conn = calls[c].built
              /\ Kind(_conn) = "h20"
              /\ transports[_conn]._sock = 0
    /\ \A i \in DOMAIN log :
          Kind(log[i].t) = "h20" =>
              /\ calls[transports[log[i].t].by].pc # "L96"
              /\ transports[log[i].t]._sock =
                    calls[transports[log[i].t].by].e.sock

\* A call is between line 93 and line 96.
C15_Witness ==
    \E c \in DOMAIN calls :
        /\ calls[c].pc = "L96"
        /\ _conn = calls[c].built /\ transports[_conn]._sock = 0

\* C16: once an HTTP20Connection has been installed, every later call the
\* facade makes, request, preamble or forwarded attribute lookup, is made on
\* it or on an HTTP20Connection installed after it, none on an object that
\* was discarded.
C16_OldTransportDead ==
    \A t \in DOMAIN transports :
        Kind(t) = "h20" =>
            \A i \in DOMAIN log :
                i > transports[t].born =>
                    log[i].t >= t /\ Kind(log[i].t) = "h20"

\* The HTTP/1.1 object served a lookup; after the upgrade a later request
\* and a later lookup both reached the HTTP/2 object.
C16_Witness ==
    /\ Kind(_conn) = "h20"
    /\ \E i \in Forwards : log[i].t = 1
    /\ \E i \in Forwards : log[i].t = _conn /\ i > transports[_conn].born
    /\ \E c \in DOMAIN calls :
          Done(c) /\ calls[c].first = _conn /\ ReqEvents(c) # {}

\* The preambles call c has sent.
PreambleEvents(c) ==
    {i \in DOMAIN log : log[i].op = "preamble" /\ log[i].call = c}

\* Call c entered while the HTTP/1.1 object was active, caught a TLSUpgrade
\* naming an HTTP/2 protocol and went through the handler without the
\* constructor raising.
UpgradedFromFresh(c) ==
    /\ Done(c) /\ CaughtSignal(c) /\ Kind(calls[c].first) = "h11"
    /\ calls[c].e.negotiated \in H2_NPN_PROTOCOLS
    /\ calls[c].outcome # Raise("TypeError")

\* C17: request() takes no lock.  Two calls that both entered on the
\* HTTP/1.1 object and both caught TLSUpgrade each construct and install an
\* HTTP20Connection of their own and each send a preamble, the object
\* installed last staying active; and two such swaps only occur when the
\* second call entered while the first was still inside request().
C17_NoSynchronization ==
    \A c1 \in DOMAIN calls : \A c2 \in DOMAIN calls :
        c1 < c2 =>
            /\ (UpgradedFromFresh(c1) /\ UpgradedFromFresh(c2)) =>
                  /\ calls[c1].built # 0 /\ calls[c2].built # 0
                  /\ calls[c1].built # calls[c2].built
                  /\ Kind(calls[c1].built) = "h20" /\ Kind(calls[c2].built) = "h20"
                  /\ Cardinality(PreambleEvents(c1)) = 1
                  /\ Cardinality(PreambleEvents(c2)) = 1
                  /\ \/ _conn = calls[c1].built /\ calls[c2].built < _conn
                     \/ _conn = calls[c2].built /\ calls[c1].built < _conn
                     \/ \E c3 \in DOMAIN calls :
                            _conn = calls[c3].built /\ calls[c1].built < _conn
                                                    /\ calls[c2].built < _conn
            /\ ( /\ Kind(calls[c1].first) = "h11" /\ calls[c1].built # 0
                 /\ Kind(calls[c2].first) = "h11" /\ calls[c2].built # 0 )
                  => calls[c2].overlapped

\* Two interleaved calls have both swapped: two HTTP20Connections, two
\* preambles, the one installed last active.
C17_Witness ==
    /\ Len(calls) = 2
    /\ UpgradedFromFresh(1) /\ UpgradedFromFresh(2)
    /\ Cardinality({t \in DOMAIN transports : Kind(t) = "h20"}) = 2
    /\ Cardinality(PreambleEvents(1) \cup PreambleEvents(2)) = 2
    /\ _conn = 3

\* C18 (as claimed): no request is ever issued on an HTTP20Connection on
\* which the preamble has not been sent successfully before.
C18_PreambleBeforeEveryRequest ==
    \A i \in DOMAIN log :
        (log[i].op = "request" /\ Kind(log[i].t) = "h20") =>
            \E j \in 1..(i - 1) :
                /\ log[j].op = "preamble"
                /\ log[j].t = log[i].t
                /\ log[j].out.type = "return"

\* Call c caught TLSUpgrade from the HTTP/1.1 object and ended at the
\* protocol check or in the HTTP20Connection constructor.
FailedBeforeInstall(c) ==
    /\ Done(c) /\ CaughtSignal(c) /\ Kind(calls[c].first) = "h11"
    /\ calls[c].outcome \in {Raise("AssertionError"), Raise("TypeError")}

\* C19: after a call that failed at the protocol check or in the
\* HTTP20Connection constructor, the active object is still the HTTP/1.1
\* object the call entered on, no connection object was added by the call,
\* host, port and both mappings are as __init__ left them, and the next
\* request is forwarded to the HTTP/1.1 object.
C19_FailedUpgradeStaysFresh ==
    \A c \in DOMAIN calls :
        FailedBeforeInstall(c) =>
            /\ c = Len(calls) => (_conn = calls[c].first /\ Kind(_conn) = "h11")
            /\ \A t \in DOMAIN transports : transports[t].by # c
            /\ _host = given.host /\ _port = given.port
            /\ _h1_kwargs = H1Kwargs(given.secure, given.kwargs)
            /\ _h2_kwargs =
                  H2Kwargs(given.window_manager, given.enable_push, given.kwargs)
            /\ c < Len(calls) =>
                  /\ calls[c + 1].first = calls[c].first
                  /\ \A i \in ForwardEvents(c + 1) : Kind(log[i].t) = "h11"

\* One call failed at the protocol check, the next in the constructor, and
\* both were forwarded to the HTTP/1.1 object.
C19_Witness ==
    /\ Len(calls) = 2
    /\ FailedBeforeInstall(1) /\ calls[1].outcome = Raise("AssertionError")
    /\ FailedBeforeInstall(2) /\ calls[2].outcome = Raise("TypeError")
    /\ ForwardEvents(2) # {} /\ calls[2].first = 1

====
